---- MODULE Spec2Model ----
(***************************************************************************)
(* Model of ngsg_rerun.py: the report parser, the Stage3 parser, the       *)
(* collator and the 384-well manifest writer.                              *)
(*                                                                         *)
(* A Python str is a sequence of one-character strings, so that split,     *)
(* strip, startswith, replace, join and sorted are computed as Python      *)
(* computes them.  A Python dict is a sequence of [k, v] records in        *)
(* insertion order with pairwise distinct keys.                            *)
(***************************************************************************)
EXTENDS Integers, Sequences, FiniteSets, TLC

VARIABLES
    file_content,    \* lines of the uploaded genotyping report
    failed_assays,   \* dict (barcode,plate,well,sex) -> list of (assay,alleleSymbol)
    report_error,    \* TRUE iff the report parser reported an exception (st.write)
    stage3f,         \* lines of the uploaded Stage3.csv
    stage3_dict,     \* dict barcode -> list of Stage3 records
    stage3_error,    \* TRUE iff the Stage3 parser reported an exception
    plate_set,       \* dict dnaPlate -> dict dnaWell -> PlateWellEntry
    first_plate_set, \* what the first call of the collator returned
    collations,      \* number of calls of the collator so far
    manifest,        \* the manifest file: whether it exists, and its lines
    emitted,         \* (dnaPlate, dnaWell) of every data row printed, in order
    success,         \* return value of generate_manifest_384
    pc               \* position in the run

vars == <<file_content, failed_assays, report_error, stage3f, stage3_dict,
          stage3_error, plate_set, first_plate_set, collations, manifest,
          emitted, success, pc>>

----------------------------------------------------------------------------
(* Bounds of the model *)

MaxReportLines == 3
MaxStage3Rows == 2
MaxAssays == 8
MaxCollations == 2

----------------------------------------------------------------------------
(* Python str and list primitives *)

Range(s) == {s[i] : i \in 1..Len(s)}

Whitespace == {" ", "\t", "\r", "\n"}

StartsWith(s, p) == Len(s) >= Len(p) /\ SubSeq(s, 1, Len(p)) = p

RECURSIVE Split(_, _)
Split(s, sep) ==
    IF \A i \in 1..Len(s) : s[i] # sep
    THEN <<s>>
    ELSE LET i == CHOOSE n \in 1..Len(s) :
                      s[n] = sep /\ \A j \in 1..(n - 1) : s[j] # sep
         IN  <<SubSeq(s, 1, i - 1)>> \o Split(SubSeq(s, i + 1, Len(s)), sep)

RECURSIVE LStrip(_)
LStrip(s) == IF s # <<>> /\ Head(s) \in Whitespace THEN LStrip(Tail(s)) ELSE s

RECURSIVE RStrip(_)
RStrip(s) ==
    IF s # <<>> /\ s[Len(s)] \in Whitespace
    THEN RStrip(SubSeq(s, 1, Len(s) - 1))
    ELSE s

Strip(s) == RStrip(LStrip(s))

StripAll(cols) == [i \in 1..Len(cols) |-> Strip(cols[i])]

RemoveChar(s, ch) == SelectSeq(s, LAMBDA c : c # ch)

RECURSIVE Join(_, _)
Join(parts, sep) ==
    IF parts = <<>> THEN <<>>
    ELSE IF Len(parts) = 1 THEN parts[1]
    ELSE parts[1] \o sep \o Join(Tail(parts), sep)

Repeat(x, n) == [i \in 1..n |-> x]

s_comma == <<",">>

s_semi == <<";">>

(* dict primitives *)
DictHas(d, k) == \E i \in 1..Len(d) : d[i].k = k

DictIndex(d, k) == CHOOSE i \in 1..Len(d) : d[i].k = k

DictGet(d, k) == d[DictIndex(d, k)].v

DictSet(d, k, v) ==
    IF DictHas(d, k)
    THEN [d EXCEPT ![DictIndex(d, k)] = [k |-> k, v |-> v]]
    ELSE Append(d, [k |-> k, v |-> v])

DictKeys(d) == [i \in 1..Len(d) |-> d[i].k]

----------------------------------------------------------------------------
(* parse_failed_genotyping_results *)

s_barcode == <<"b", "a", "r", "c", "o", "d", "e">>

MinReportCols == 21

ReasonCol == 21

IsFailureAlways(genotype) == TRUE

IsFailure(genotype) == "?" \in Range(genotype)

AddFailedAssay(failed, ident, pair) ==
    IF DictHas(failed, ident)
    THEN DictSet(failed, ident, Append(DictGet(failed, ident), pair))
    ELSE DictSet(failed, ident, <<pair>>)

(* The body of the loop for one line: the dict after it, and whether the   *)
(* line raised (ValueError of the two-way unpack, IndexError of cols[21]). *)
ReportLine(failed, line) ==
    IF StartsWith(line, s_barcode)
    THEN [fa |-> failed, exc |-> FALSE]
    ELSE LET cols == StripAll(Split(line, ",")) IN
         IF Len(cols) < MinReportCols
         THEN [fa |-> failed, exc |-> FALSE]
         ELSE LET parts == Split(cols[2], ";") IN
              IF Len(parts) # 2
              THEN [fa |-> failed, exc |-> TRUE]
              ELSE IF Len(cols) < ReasonCol + 1
              THEN [fa |-> failed, exc |-> TRUE]
              ELSE LET ident == <<parts[1], cols[3], cols[4], cols[5]>>
                       pair  == <<parts[2], Strip(cols[6])>>
                   IN  IF IsFailure(cols[20])
                       THEN [fa |-> AddFailedAssay(failed, ident, pair),
                             exc |-> FALSE]
                       ELSE [fa |-> failed, exc |-> FALSE]

(* The try block is around the whole loop: the first line that raises ends *)
(* the loop, and the dict built so far is returned.                        *)
RECURSIVE ParseReportFrom(_, _, _)
ParseReportFrom(lines, i, failed) ==
    IF i > Len(lines)
    THEN [fa |-> failed, exc |-> FALSE]
    ELSE LET r == ReportLine(failed, lines[i]) IN
         IF r.exc THEN r ELSE ParseReportFrom(lines, i + 1, r.fa)

parse_failed_genotyping_results(lines) == ParseReportFrom(lines, 1, <<>>)

(* main: the uploaded report is parsed; the Stage3 upload is offered when  *)
(* the result is not empty.                                                *)
ParseReport ==
    /\ pc = "report"
    /\ LET r == parse_failed_genotyping_results(file_content) IN
         /\ failed_assays' = r.fa
         /\ report_error' = r.exc
         /\ pc' = IF r.fa # <<>> THEN "stage3" ELSE "done"
    /\ UNCHANGED <<file_content, stage3f, stage3_dict, stage3_error, plate_set,
                   first_plate_set, collations, manifest, emitted, success>>

----------------------------------------------------------------------------
(* parse_stage3_csv *)

s_sampleNo == <<"s", "a", "m", "p", "l", "e", "N", "o">>

GuardChars == {"c", "m", "r", "p"}

(* util.unguard: a guarded barcode carries the same guard character at     *)
(* both ends; with silent=True an unguarded one is returned as it is.      *)
unguard(bc) ==
    IF Len(bc) >= 2 /\ bc[1] \in GuardChars /\ bc[Len(bc)] = bc[1]
    THEN SubSeq(bc, 2, Len(bc) - 1)
    ELSE bc

MinStage3Cols == 5

PrimerCol == 15

OnBadHeaderGoOn(d) == [d |-> d, flow |-> "next"]

(* No header in the first line: return the (empty) dict at once. *)
OnBadHeader(d) == [d |-> d, flow |-> "return"]

Stage3Record(cols) ==
    <<cols[14], cols[15], cols[7], cols[8], cols[9], cols[10], cols[11],
      cols[12], cols[13]>>

AddStage3(d, barcode, rec) ==
    IF DictHas(d, barcode)
    THEN DictSet(d, barcode, Append(DictGet(d, barcode), rec))
    ELSE DictSet(d, barcode, <<rec>>)

(* The body of the loop for line number i (from 0): the dict after it and  *)
(* how the loop goes on: "next", "return" or "raise" (IndexError).         *)
Stage3Line(d, i, line) ==
    LET l == RemoveChar(line, "\"") IN
    IF i = 0
    THEN IF StartsWith(l, s_sampleNo)
         THEN [d |-> d, flow |-> "next"]
         ELSE OnBadHeader(d)
    ELSE LET cols == Split(Strip(l), ",") IN
         IF Len(cols) < MinStage3Cols \/ cols[1] = <<>>
         THEN [d |-> d, flow |-> "next"]
         ELSE IF Len(cols) < PrimerCol + 1
         THEN [d |-> d, flow |-> "raise"]
         ELSE [d |-> AddStage3(d, unguard(cols[4]), Stage3Record(cols)),
               flow |-> "next"]

RECURSIVE ParseStage3From(_, _, _)
ParseStage3From(lines, i, d) ==
    IF i >= Len(lines)
    THEN [d |-> d, flow |-> "next"]
    ELSE LET r == Stage3Line(d, i, lines[i + 1]) IN
         IF r.flow # "next" THEN r ELSE ParseStage3From(lines, i + 1, r.d)

parse_stage3_csv(lines) == ParseStage3From(lines, 0, <<>>)

(* main: the uploaded Stage3 file is parsed; the manifest is generated     *)
(* when both dicts are not empty.                                          *)
ParseStage3 ==
    /\ pc = "stage3"
    /\ LET r == parse_stage3_csv(stage3f) IN
         /\ stage3_dict' = r.d
         /\ stage3_error' = (r.flow = "raise")
         /\ pc' = IF r.d # <<>> THEN "generate" ELSE "done"
    /\ UNCHANGED <<file_content, failed_assays, report_error, stage3f,
                   plate_set, first_plate_set, collations, manifest, emitted,
                   success>>

----------------------------------------------------------------------------
(* collate_manifest_entries *)

LatestNonEmpty(cur, new) == IF new # <<>> THEN new ELSE cur

(* if x_ and not x: x = x_ *)
FirstNonEmpty(cur, new) == IF new # <<>> /\ cur = <<>> THEN new ELSE cur

FillFieldOverwrite(stored, found) == IF found # <<>> THEN found ELSE stored

(* if x and not entry[x]: entry[x] = x *)
FillField(stored, found) ==
    IF found # <<>> /\ stored = <<>> THEN found ELSE stored

NewEntry(barcode, assays, alleleSymbols) ==
    [barcode |-> barcode, assays |-> assays, alleleSymbols |-> alleleSymbols,
     clientName |-> <<>>, sampleName |-> <<>>]

(* The entry of a well takes the barcode and the lists of the key at hand. *)
PlaceEntryOfLatestKey(ps, dnaPlate, dnaWell, barcode, assays, alleleSymbols, clientName, sampleName) ==
    LET ps1   == IF DictHas(ps, dnaPlate) THEN ps
                 ELSE DictSet(ps, dnaPlate, <<>>)
        wells == DictGet(ps1, dnaPlate)
        ent0  == IF DictHas(wells, dnaWell)
                 THEN [DictGet(wells, dnaWell) EXCEPT
                          !.barcode = barcode, !.assays = assays,
                          !.alleleSymbols = alleleSymbols]
                 ELSE NewEntry(barcode, assays, alleleSymbols)
        ent   == [ent0 EXCEPT !.clientName = FillField(@, clientName),
                              !.sampleName = FillField(@, sampleName)]
    IN  DictSet(ps1, dnaPlate, DictSet(wells, dnaWell, ent))

(* The statements under "if dnaPlate and dnaWell". *)
PlaceEntry(ps, dnaPlate, dnaWell, barcode, assays, alleleSymbols, clientName, sampleName) ==
    LET ps1   == IF DictHas(ps, dnaPlate) THEN ps
                 ELSE DictSet(ps, dnaPlate, <<>>)
        wells == DictGet(ps1, dnaPlate)
        ent0  == IF DictHas(wells, dnaWell) THEN DictGet(wells, dnaWell)
                 ELSE NewEntry(barcode, assays, alleleSymbols)
        ent   == [ent0 EXCEPT !.clientName = FillField(@, clientName),
                              !.sampleName = FillField(@, sampleName)]
    IN  DictSet(ps1, dnaPlate, DictSet(wells, dnaWell, ent))

(* The body of the loop over the Stage3 records of one barcode. *)
ScanRecord(st, barcode, assays, alleleSymbols, result) ==
    LET clientName == FirstNonEmpty(st.clientName, result[8])
        sampleName == FirstNonEmpty(st.sampleName, result[9])
        dnaPlate   == FirstNonEmpty(st.dnaPlate, result[1])
        dnaWell    == FirstNonEmpty(st.dnaWell, result[2])
    IN  [clientName |-> clientName, sampleName |-> sampleName,
         dnaPlate |-> dnaPlate, dnaWell |-> dnaWell,
         plate_set |->
            IF dnaPlate # <<>> /\ dnaWell # <<>>
            THEN PlaceEntry(st.plate_set, dnaPlate, dnaWell, barcode, assays,
                            alleleSymbols, clientName, sampleName)
            ELSE st.plate_set]

RECURSIVE ScanRecords(_, _, _, _, _, _)
ScanRecords(st, barcode, assays, alleleSymbols, results, i) ==
    IF i > Len(results) THEN st
    ELSE ScanRecords(ScanRecord(st, barcode, assays, alleleSymbols, results[i]),
                     barcode, assays, alleleSymbols, results, i + 1)

(* The body of the loop over the keys of failed_assays. *)
CollateKey(ps, item, s3) ==
    LET barcode       == item.k[1]
        assays        == [i \in 1..Len(item.v) |-> item.v[i][1]]
        alleleSymbols == [i \in 1..Len(item.v) |-> item.v[i][2]]
        st0 == [clientName |-> <<>>, sampleName |-> <<>>, dnaPlate |-> <<>>,
                dnaWell |-> <<>>, plate_set |-> ps]
    IN  IF DictHas(s3, barcode)
        THEN ScanRecords(st0, barcode, assays, alleleSymbols,
                         DictGet(s3, barcode), 1).plate_set
        ELSE ps

RECURSIVE CollateKeys(_, _, _, _)
CollateKeys(ps, fa, s3, i) ==
    IF i > Len(fa) THEN ps
    ELSE CollateKeys(CollateKey(ps, fa[i], s3), fa, s3, i + 1)

collate_manifest_entries(fa, s3) == CollateKeys(<<>>, fa, s3, 1)

CollateKeepingPlateSet ==
    /\ pc \in {"collate", "collated", "written"}
    /\ collations < MaxCollations
    /\ plate_set' = CollateKeys(plate_set, failed_assays, stage3_dict, 1)
    /\ first_plate_set' = IF collations = 0 THEN plate_set' ELSE first_plate_set
    /\ collations' = collations + 1
    /\ pc' = "collated"
    /\ UNCHANGED <<file_content, failed_assays, report_error, stage3f,
                   stage3_dict, stage3_error, manifest, emitted, success>>

(* A call of the collator on the two parsed inputs. *)
Collate ==
    /\ pc \in {"collate", "collated", "written"}
    /\ collations < MaxCollations
    /\ plate_set' = collate_manifest_entries(failed_assays, stage3_dict)
    /\ first_plate_set' = IF collations = 0 THEN plate_set' ELSE first_plate_set
    /\ collations' = collations + 1
    /\ pc' = "collated"
    /\ UNCHANGED <<file_content, failed_assays, report_error, stage3f,
                   stage3_dict, stage3_error, manifest, emitted, success>>

----------------------------------------------------------------------------
(* generate_manifest_384 *)

Digits == <<"0", "1", "2", "3", "4", "5", "6", "7", "8", "9">>

(* str(n) of an int n >= 0 *)
RECURSIVE IntToStr(_)
IntToStr(n) ==
    IF n < 10 THEN <<Digits[n + 1]>>
    ELSE IntToStr(n \div 10) \o <<Digits[(n % 10) + 1]>>

RowLetters == <<"A", "B", "C", "D", "E", "F", "G", "H", "I", "J", "K", "L",
                "M", "N", "O", "P">>

(* util.col_ordered_384: A1, B1, ..., P1, A2, ..., P24 *)
col_ordered_384 ==
    [i \in 1..384 |->
        <<RowLetters[((i - 1) % 16) + 1]>> \o IntToStr(((i - 1) \div 16) + 1)]

(* util.unguard_pbc: a guarded plate barcode is p...p *)
unguard_pbc(pbc) ==
    IF Len(pbc) >= 2 /\ pbc[1] = "p" /\ pbc[Len(pbc)] = "p"
    THEN SubSeq(pbc, 2, Len(pbc) - 1)
    ELSE pbc

(* The characters of the model in the order of their code points. *)
AsciiOrder ==
    <<" ", "\"", ",", "0", "1", "2", "3", "4", "5", "6", "7", "8", "9",
    ";", "?", "A", "B", "C", "D", "E", "F", "G", "H", "I", "J", "K", "L",
    "M", "N", "O", "P", "Q", "R", "S", "T", "U", "V", "W", "X", "Y", "Z",
    "a", "b", "c", "d", "e", "f", "g", "h", "i", "j", "k", "l", "m", "n",
    "o", "p", "q", "r", "s", "t", "u", "v", "w", "x", "y", "z">>

Ord(c) == CHOOSE i \in 1..Len(AsciiOrder) : AsciiOrder[i] = c

(* a < b for two str *)
RECURSIVE StrLess(_, _)
StrLess(a, b) ==
    IF b = <<>> THEN FALSE
    ELSE IF a = <<>> THEN TRUE
    ELSE IF a[1] = b[1] THEN StrLess(Tail(a), Tail(b))
    ELSE Ord(a[1]) < Ord(b[1])

RECURSIVE SortedSet(_)
SortedSet(S) ==
    IF S = {} THEN <<>>
    ELSE LET m == CHOOSE x \in S : \A y \in S \ {x} : StrLess(x, y)
         IN  <<m>> \o SortedSet(S \ {m})

(* sorted(plate_set) *)
PlateOrder(d) == SortedSet(Range(DictKeys(d)))

WellsAsInserted(wells) == DictKeys(wells)

(* for pos in util.col_ordered_384: if pos in plate_set[gpid] *)
WellOrder(wells) == SelectSeq(col_ordered_384, LAMBDA pos : DictHas(wells, pos))

(* The (gpid, pos) of the rows in the order the two loops reach them. *)
RECURSIVE RowOrder(_, _, _)
RowOrder(ps, plates, i) ==
    IF i > Len(plates) THEN <<>>
    ELSE LET wells == WellOrder(DictGet(ps, plates[i]))
         IN  [j \in 1..Len(wells) |-> <<plates[i], wells[j]>>]
             \o RowOrder(ps, plates, i + 1)

AssayColumns == 7

PadAndTruncate(assays) ==
    SubSeq(assays \o Repeat(<<>>, AssayColumns - Len(assays)), 1, AssayColumns)

(* assays.extend(['']*(7-len(assays))) *)
PadAssays(assays) == assays \o Repeat(<<>>, AssayColumns - Len(assays))

h_SampleNo == <<"S", "a", "m", "p", "l", "e", " ", "n", "o">>

h_plateBarcode == <<"p", "l", "a", "t", "e", "B", "a", "r", "c", "o", "d", "e">>

h_well == <<"w", "e", "l", "l">>

h_sampleBarcode == <<"s", "a", "m", "p", "l", "e", "B", "a", "r", "c", "o", "d", "e">>

h_Assay == <<"A", "s", "s", "a", "y">>

h_clientName == <<"c", "l", "i", "e", "n", "t", "N", "a", "m", "e">>

h_sampleName == <<"s", "a", "m", "p", "l", "e", "N", "a", "m", "e">>

h_alleleSymbol == <<"a", "l", "l", "e", "l", "e", "S", "y", "m", "b", "o", "l">>

HeaderLine ==
    Join(<<h_SampleNo, h_plateBarcode, h_well, h_sampleBarcode>>
         \o Repeat(h_Assay, 7)
         \o <<h_clientName, h_sampleName, h_alleleSymbol>>, s_comma)

(* The line printed for the entry at (gpid, pos), its assays padded. *)
RowLine(sample_counter, gpid, pos, entry) ==
    Join(<<IntToStr(sample_counter), unguard_pbc(gpid), pos, entry.barcode>>
         \o entry.assays
         \o <<entry.clientName, unguard(entry.sampleName),
              Join(entry.alleleSymbols, s_semi)>>, s_comma)

PadEntry(ps, gpid, pos) ==
    LET wells == DictGet(ps, gpid)
        entry == DictGet(wells, pos)
    IN  DictSet(ps, gpid,
                DictSet(wells, pos,
                        [entry EXCEPT !.assays = PadAssays(entry.assays)]))

(* The loop over the first n rows: the plate set with their assay lists    *)
(* padded in place.                                                        *)
RECURSIVE PadRows(_, _, _)
PadRows(ps, order, n) ==
    IF n = 0 THEN ps
    ELSE PadEntry(PadRows(ps, order, n - 1), order[n][1], order[n][2])

OpenBeforeCheck(ps, old) == [exists |-> TRUE, lines |-> <<>>]

(* if not plate_set: return success, before the file is opened *)
ReturnOnEmpty(ps, old) == old

(* generate_manifest_384, where the fault says how far the output gets:    *)
(* 0 when open() raises, k when the k-th print raises, and more than the   *)
(* number of prints when nothing raises.                                   *)
generate_manifest_384(fa, s3, old, fault) ==
    LET ps     == collate_manifest_entries(fa, s3)
        order  == RowOrder(ps, PlateOrder(ps), 1)
        prints == 1 + Len(order)
        tried  == IF fault > prints THEN Len(order) ELSE fault - 1
        done   == IF fault > prints THEN Len(order) ELSE fault - 2
        padded == PadRows(ps, order, tried)
    IN  IF ps = <<>>
        THEN [plate_set |-> ps, manifest |-> ReturnOnEmpty(ps, old),
              emitted |-> <<>>, success |-> FALSE]
        ELSE IF fault = 0
        THEN [plate_set |-> ps, manifest |-> old, emitted |-> <<>>,
              success |-> FALSE]
        ELSE IF fault = 1
        THEN [plate_set |-> ps, manifest |-> [exists |-> TRUE, lines |-> <<>>],
              emitted |-> <<>>, success |-> FALSE]
        ELSE [plate_set |-> padded,
              manifest |->
                 [exists |-> TRUE,
                  lines |-> <<HeaderLine>> \o
                     [k \in 1..done |->
                         RowLine(k, order[k][1], order[k][2],
                                 DictGet(DictGet(padded, order[k][1]),
                                         order[k][2]))]],
              emitted |-> SubSeq(order, 1, done),
              success |-> fault > prints]

NumPrints(fa, s3) ==
    LET ps == collate_manifest_entries(fa, s3)
    IN  1 + Len(RowOrder(ps, PlateOrder(ps), 1))

(* main: both dicts are non-empty, the manifest is generated and the two   *)
(* dicts are reset.                                                        *)
MainGenerate ==
    /\ pc = "generate"
    /\ \E fault \in 0..(NumPrints(failed_assays, stage3_dict) + 1) :
          LET r == generate_manifest_384(failed_assays, stage3_dict,
                                         manifest, fault)
          IN  /\ plate_set' = r.plate_set
              /\ manifest' = r.manifest
              /\ emitted' = r.emitted
              /\ success' = r.success
    /\ failed_assays' = <<>>
    /\ stage3_dict' = <<>>
    /\ pc' = "done"
    /\ UNCHANGED <<file_content, report_error, stage3f, stage3_error,
                   first_plate_set, collations>>

(* A call of generate_manifest_384 between two calls of the collator. *)
CallGenerate ==
    /\ pc = "collated"
    /\ \E fault \in 0..(NumPrints(failed_assays, stage3_dict) + 1) :
          LET r == generate_manifest_384(failed_assays, stage3_dict,
                                         manifest, fault)
          IN  /\ plate_set' = r.plate_set
              /\ manifest' = r.manifest
              /\ emitted' = r.emitted
              /\ success' = r.success
    /\ pc' = "written"
    /\ UNCHANGED <<file_content, failed_assays, report_error, stage3f,
                   stage3_dict, stage3_error, first_plate_set, collations>>

----------------------------------------------------------------------------
(* Inputs: report lines *)

s_M1 == <<"M", "1">>
s_M2 == <<"M", "2">>
s_a1 == <<"a", "1">>
s_a2 == <<"a", "2">>
s_x == <<"x">>
s_F == <<"F">>
s_sp == <<"s", "p">>
s_A1 == <<"A", "1">>
s_B1 == <<"B", "1">>
s_A2 == <<"A", "2">>
s_sym == <<"S", "y">>
s_fail == <<"A", "?", "G">>
s_pass == <<"A", "G">>

(* The first n fields of a report row of the documented 22-column layout,  *)
(* padded with x fields when n is larger.                                  *)
ReportRow(code_assays, well, genotype, n) ==
    LET full == <<s_x, code_assays, s_sp, well, s_F, s_sym>> \o Repeat(s_x, 13)
                \o <<genotype, s_x, s_x>> \o Repeat(s_x, n)
    IN  Join(SubSeq(full, 1, n), s_comma)

CodeAssays(barcode, assay) == barcode \o s_semi \o assay

ReportHeader == Join(<<s_barcode, <<"c", "o", "d", "e">>, s_x>>, s_comma)

ReportRows ==
    { ReportHeader,
      <<>>,
      ReportRow(CodeAssays(s_M1, s_a1), s_A1, s_fail, 22),
      ReportRow(<<" ">> \o CodeAssays(s_M1, s_a2), s_A1, s_fail \o <<"\r">>, 23),
      ReportRow(CodeAssays(s_M2, s_a1), s_B1, s_pass, 22),
      ReportRow(CodeAssays(s_M2, s_a2), s_B1, s_fail, 22),
      ReportRow(CodeAssays(s_M1, s_a1), s_A1, s_fail, 21),
      ReportRow(CodeAssays(s_M1, s_a1), s_A1, s_fail, 20),
      ReportRow(s_M1, s_A1, s_fail, 22),
      ReportRow(CodeAssays(s_M1, s_a1) \o s_semi \o s_x, s_A1, s_fail, 22) }

SeqsUpTo(S, n) == UNION {[1..m -> S] : m \in 1..n}

ReportInputs == SeqsUpTo(ReportRows, MaxReportLines)

NoFile == [exists |-> FALSE, lines |-> <<>>]

InitReport ==
    /\ file_content \in ReportInputs
    /\ failed_assays = <<>>
    /\ report_error = FALSE
    /\ stage3f = <<>>
    /\ stage3_dict = <<>>
    /\ stage3_error = FALSE
    /\ plate_set = <<>>
    /\ first_plate_set = <<>>
    /\ collations = 0
    /\ manifest = NoFile
    /\ emitted = <<>>
    /\ success = FALSE
    /\ pc = "report"

NextReport == ParseReport

SpecReport == InitReport /\ [][NextReport]_vars

----------------------------------------------------------------------------
(* Inputs: Stage3 lines *)

s_cM1c == <<"c", "M", "1", "c">>
s_p1p == <<"p", "1", "p">>
s_p2p == <<"p", "2", "p">>
s_C1 == <<"C", "1">>
s_C2 == <<"C", "2">>
s_cS1c == <<"c", "S", "1", "c">>
s_S2 == <<"S", "2">>
s_1 == <<"1">>
s_quote == <<"\"">>

(* The first n fields of a Stage3 row of the documented column layout. *)
Stage3Row(barcode, clientName, sampleName, dnaPlate, dnaWell, n) ==
    LET full == <<s_1, s_sp, s_A1, barcode, s_x, s_F, s_sym, s_x, s_x, s_a1,
                  s_x, clientName, sampleName, dnaPlate, dnaWell, s_x>>
                \o Repeat(s_x, n)
    IN  Join(SubSeq(full, 1, n), s_comma)

Stage3Header == Join(<<s_sampleNo, s_sp, s_x>>, s_comma)

Stage3Rows ==
    { Stage3Row(s_cM1c, <<>>, <<>>, s_p1p, s_B1, 16),
      Stage3Row(s_quote \o s_cM1c \o s_quote, s_C2, s_S2, s_p2p, s_A1, 17),
      Stage3Row(s_cM1c, s_C1, s_cS1c, s_p1p, <<>>, 16),
      Stage3Row(s_M2, s_C1, <<>>, s_p1p, s_A2, 16),
      Stage3Row(s_M2, s_C2, s_S2, s_p1p, s_B1, 16),
      Stage3Row(s_cM1c, s_C1, s_cS1c, s_p1p, s_B1, 16),
      Stage3Row(s_cM1c, s_C1, s_cS1c, s_p1p, s_B1, 7) }

Stage3FirstLines ==
    { Stage3Header,
      s_quote \o s_sampleNo \o s_quote \o s_comma \o s_x,
      <<"S">> \o Tail(Stage3Header),
      Stage3Row(s_M2, s_C2, s_S2, s_p1p, s_B1, 16) }

Stage3Bodies == {<<>>} \cup SeqsUpTo(Stage3Rows, MaxStage3Rows)

Stage3Inputs == {<<first>> \o body : first \in Stage3FirstLines,
                                      body \in Stage3Bodies}

OneFailureReport ==
    <<ReportHeader, ReportRow(CodeAssays(s_M1, s_a1), s_A1, s_fail, 22)>>

InitStage3 ==
    /\ file_content = OneFailureReport
    /\ failed_assays = parse_failed_genotyping_results(OneFailureReport).fa
    /\ report_error = FALSE
    /\ stage3f \in Stage3Inputs
    /\ stage3_dict = <<>>
    /\ stage3_error = FALSE
    /\ plate_set = <<>>
    /\ first_plate_set = <<>>
    /\ collations = 0
    /\ manifest = NoFile
    /\ emitted = <<>>
    /\ success = FALSE
    /\ pc = "stage3"

NextStage3 == ParseStage3

SpecStage3 == InitStage3 /\ [][NextStage3]_vars

----------------------------------------------------------------------------
(* The run of main on an uploaded report and an uploaded Stage3 file *)

(* n failed rows of the sample M1 at well A1, for the assays a1 .. an *)
FailedRows(n) ==
    [i \in 1..n |->
        ReportRow(CodeAssays(s_M1, <<"a">> \o IntToStr(i)), s_A1, s_fail, 22)]

RowOfM2 == ReportRow(CodeAssays(s_M2, s_a2), s_B1, s_fail, 22)

RowOfM1AtB1 == ReportRow(CodeAssays(s_M1, s_a2), s_B1, s_fail, 22)

TwoKeyReports ==
    { <<ReportHeader>> \o FailedRows(MaxAssays) \o <<RowOfM2>>,
      <<ReportHeader>> \o FailedRows(1) \o <<RowOfM2>>,
      <<ReportHeader, RowOfM2>> \o FailedRows(1),
      <<ReportHeader>> \o FailedRows(1) \o <<RowOfM1AtB1>> }

Reports ==
    {<<ReportHeader>> \o FailedRows(n) : n \in 0..MaxAssays} \cup TwoKeyReports

CollateReports ==
    {<<ReportHeader>> \o FailedRows(n) : n \in {1, MaxAssays}}
    \cup TwoKeyReports

Stage3Files == {<<Stage3Header>> \o body : body \in Stage3Bodies}

OldFile == [exists |-> TRUE, lines |-> <<HeaderLine, s_x>>]

Init ==
    /\ file_content \in Reports
    /\ failed_assays = <<>>
    /\ report_error = FALSE
    /\ stage3f \in Stage3Files
    /\ stage3_dict = <<>>
    /\ stage3_error = FALSE
    /\ plate_set = <<>>
    /\ first_plate_set = <<>>
    /\ collations = 0
    /\ manifest \in {NoFile, OldFile}
    /\ emitted = <<>>
    /\ success = FALSE
    /\ pc = "report"

Next == ParseReport \/ ParseStage3 \/ MainGenerate

Spec == Init /\ [][Next]_vars

(* The collator called on the two parsed inputs, more than once, with a    *)
(* call of generate_manifest_384 in between or not.                        *)
InitCollate ==
    /\ file_content \in CollateReports
    /\ failed_assays = parse_failed_genotyping_results(file_content).fa
    /\ report_error = FALSE
    /\ stage3f \in Stage3Files
    /\ stage3_dict = parse_stage3_csv(stage3f).d
    /\ stage3_error = (parse_stage3_csv(stage3f).flow = "raise")
    /\ plate_set = <<>>
    /\ first_plate_set = <<>>
    /\ collations = 0
    /\ manifest = NoFile
    /\ emitted = <<>>
    /\ success = FALSE
    /\ pc = "collate"

NextCollate == Collate \/ CallGenerate

SpecCollate == InitCollate /\ [][NextCollate]_vars

----------------------------------------------------------------------------
(* Claims about the report parser, checked under SpecReport *)

Fields(line) == StripAll(Split(line, ","))

IsDataRow(line) == ~StartsWith(line, s_barcode)

SplitsInTwo(line) == Len(Split(Fields(line)[2], ";")) = 2

WellFormed(line) ==
    IsDataRow(line) /\ Len(Fields(line)) >= 22 /\ SplitsInTwo(line)

HasMark(line) == "?" \in Range(Fields(line)[20])

RowKey(line) ==
    <<Split(Fields(line)[2], ";")[1], Fields(line)[3], Fields(line)[4],
      Fields(line)[5]>>

RowPair(line) == <<Split(Fields(line)[2], ";")[2], Fields(line)[6]>>

FailureRows(ident) ==
    {i \in 1..Len(file_content) :
        /\ WellFormed(file_content[i])
        /\ HasMark(file_content[i])
        /\ RowKey(file_content[i]) = ident}

Contributed(line) ==
    /\ DictHas(failed_assays, RowKey(line))
    /\ \E j \in 1..Len(DictGet(failed_assays, RowKey(line))) :
          DictGet(failed_assays, RowKey(line))[j] = RowPair(line)

ReportParsed == pc # "report"

(* C1: every key of the result has at least one data row with that key and *)
(* a '?' genotype, every pair stored under a key is the (assay,            *)
(* alleleSymbol) of such a row, and a key holds no more pairs than it has  *)
(* such rows.                                                              *)
C1_OnlyFailuresStored ==
    ReportParsed =>
        \A e \in 1..Len(failed_assays) :
            /\ FailureRows(failed_assays[e].k) # {}
            /\ Len(failed_assays[e].v)
                  <= Cardinality(FailureRows(failed_assays[e].k))
            /\ \A j \in 1..Len(failed_assays[e].v) :
                  \E i \in FailureRows(failed_assays[e].k) :
                      RowPair(file_content[i]) = failed_assays[e].v[j]

(* A row without '?' was examined and left no key, next to a row with '?'  *)
(* that was stored.                                                        *)
C1_Witness ==
    /\ ReportParsed
    /\ ~report_error
    /\ failed_assays # <<>>
    /\ \E i \in 1..Len(file_content) :
          /\ WellFormed(file_content[i])
          /\ ~HasMark(file_content[i])
          /\ ~DictHas(failed_assays, RowKey(file_content[i]))

(* C2: when no data row has exactly 21 fields, a row whose column 1 does   *)
(* not split in two affects only itself: every row with 22 fields or more, *)
(* a column 1 that splits in two and a '?' genotype has its pair in the    *)
(* result.                                                                 *)
C2_RowErrorIsLocal ==
    (/\ ReportParsed
     /\ \A i \in 1..Len(file_content) :
           IsDataRow(file_content[i]) => Len(Fields(file_content[i])) # 21)
    => \A i \in 1..Len(file_content) :
           (WellFormed(file_content[i]) /\ HasMark(file_content[i]))
               => Contributed(file_content[i])

(* C3: when every data row of 22 fields or more has a column 1 that splits *)
(* in two, rows of fewer than 22 fields are dropped silently: no error is  *)
(* reported and every row with a '?' genotype has its pair in the result.  *)
C3_ShortRowsDiscarded ==
    (/\ ReportParsed
     /\ \A i \in 1..Len(file_content) :
           (IsDataRow(file_content[i]) /\ Len(Fields(file_content[i])) >= 22)
               => SplitsInTwo(file_content[i]))
    => /\ ~report_error
       /\ \A i \in 1..Len(file_content) :
             (WellFormed(file_content[i]) /\ HasMark(file_content[i]))
                 => Contributed(file_content[i])

----------------------------------------------------------------------------
(* Claims about the Stage3 parser, checked under SpecStage3 *)

Stage3Parsed == pc \in {"generate", "done"}

HeaderFound == StartsWith(RemoveChar(stage3f[1], "\""), s_sampleNo)

(* A line that would be stored if it were examined. *)
Storable(line) ==
    LET cols == Split(Strip(RemoveChar(line, "\"")), ",")
    IN  Len(cols) >= 16 /\ cols[1] # <<>>

(* C4: when the first line, with its quote characters removed, does not    *)
(* start with sampleNo, the index returned is empty.                       *)
C4_NoHeaderEmptyIndex ==
    (Stage3Parsed /\ ~HeaderFound) => stage3_dict = <<>>

(* No header in the first line, and storable lines after it. *)
C4_Witness ==
    /\ Stage3Parsed
    /\ ~HeaderFound
    /\ Len(stage3f) >= 2
    /\ \A i \in 2..Len(stage3f) : Storable(stage3f[i])
    /\ stage3_dict = <<>>

----------------------------------------------------------------------------
(* Claims about the collator, checked under SpecCollate *)

ParsedReport == parse_failed_genotyping_results(file_content).fa

ParsedStage3 == parse_stage3_csv(stage3f).d

Collated == pc = "collated"

Known(item) == DictHas(stage3_dict, item.k[1])

RecordsOf(item) == DictGet(stage3_dict, item.k[1])

(* The value of column col in the first record that has one, or '' *)
FirstValue(records, col) ==
    IF \E i \in 1..Len(records) : records[i][col] # <<>>
    THEN LET i == CHOOSE n \in 1..Len(records) :
                      /\ records[n][col] # <<>>
                      /\ \A m \in 1..(n - 1) : records[m][col] = <<>>
         IN  records[i][col]
    ELSE <<>>

Resolves(item) ==
    /\ Known(item)
    /\ FirstValue(RecordsOf(item), 1) # <<>>
    /\ FirstValue(RecordsOf(item), 2) # <<>>

Location(item) ==
    <<FirstValue(RecordsOf(item), 1), FirstValue(RecordsOf(item), 2)>>

HasEntry(ps, loc) == DictHas(ps, loc[1]) /\ DictHas(DictGet(ps, loc[1]), loc[2])

EntryAt(ps, loc) == DictGet(DictGet(ps, loc[1]), loc[2])

Locations(ps) ==
    UNION {{<<ps[i].k, ps[i].v[j].k>> : j \in 1..Len(ps[i].v)} :
              i \in 1..Len(ps)}

(* The keys that resolve to loc, by their position in failed_assays *)
KeysAt(loc) ==
    {i \in 1..Len(failed_assays) :
        Resolves(failed_assays[i]) /\ Location(failed_assays[i]) = loc}

(* The first non-empty value of column col that the keys at loc find, in   *)
(* the order of the keys, or ''                                            *)
FirstFound(loc, col) ==
    LET found == {i \in KeysAt(loc) :
                     FirstValue(RecordsOf(failed_assays[i]), col) # <<>>}
    IN  IF found = {} THEN <<>>
        ELSE LET i == CHOOSE n \in found : \A m \in found : n <= m
             IN  FirstValue(RecordsOf(failed_assays[i]), col)

(* The record at which both dnaPlate and dnaWell of the key are resolved *)
CreatedAt(item) ==
    CHOOSE n \in 1..Len(RecordsOf(item)) :
        /\ FirstValue(SubSeq(RecordsOf(item), 1, n), 1) # <<>>
        /\ FirstValue(SubSeq(RecordsOf(item), 1, n), 2) # <<>>
        /\ \/ FirstValue(SubSeq(RecordsOf(item), 1, n - 1), 1) = <<>>
           \/ FirstValue(SubSeq(RecordsOf(item), 1, n - 1), 2) = <<>>

C6_OneEntryPerResolvedKey ==
    Collated =>
        Locations(plate_set) =
            {Location(failed_assays[i]) :
                i \in {n \in 1..Len(failed_assays) : Resolves(failed_assays[n])}}

(* One key has no barcode in the index, another has records with two       *)
(* different dnaPlate values and has one entry.                            *)
C6_Witness ==
    /\ Collated
    /\ \E i \in 1..Len(failed_assays) : ~Known(failed_assays[i])
    /\ \E i \in 1..Len(failed_assays) :
          /\ Resolves(failed_assays[i])
          /\ \E n \in 1..Len(RecordsOf(failed_assays[i])) :
                /\ RecordsOf(failed_assays[i])[n][1] # <<>>
                /\ RecordsOf(failed_assays[i])[n][1]
                      # Location(failed_assays[i])[1]
    /\ Cardinality(Locations(plate_set)) = 1

----------------------------------------------------------------------------
(* Claims about the manifest writer, checked under Spec *)

Generated == pc = "done" /\ ParsedReport # <<>> /\ ParsedStage3 # <<>>

(* What the collator returns to generate_manifest_384 in this run *)
SourcePlateSet == collate_manifest_entries(ParsedReport, ParsedStage3)

CanonicalIndex(pos) ==
    CHOOSE i \in 1..Len(col_ordered_384) : col_ordered_384[i] = pos

(* Row a is printed before row b: its plate sorts first, or the plate is   *)
(* the same and its well comes first in util.col_ordered_384.              *)
Before(a, b) ==
    \/ StrLess(a[1], b[1])
    \/ a[1] = b[1] /\ CanonicalIndex(a[2]) < CanonicalIndex(b[2])

DataLine(k) == Split(manifest.lines[k + 1], ",")

(* C7: the data rows come plate by plate in sorted dnaPlate order and,     *)
(* within a plate, in the order of util.col_ordered_384, no well twice;    *)
(* every row is of a well of the entry map, and when the manifest is       *)
(* complete every well of the entry map that is a 384-well position has    *)
(* its row.                                                                *)
C7_CanonicalRowOrder ==
    Generated =>
        LET source == SourcePlateSet IN
        /\ \A i, j \in 1..Len(emitted) : i < j => Before(emitted[i], emitted[j])
        /\ \A k \in 1..Len(emitted) :
              /\ HasEntry(source, emitted[k])
              /\ DataLine(k)[2] = unguard_pbc(emitted[k][1])
              /\ DataLine(k)[3] = emitted[k][2]
        /\ emitted # <<>> => Len(manifest.lines) = 1 + Len(emitted)
        /\ success =>
              Range(emitted) =
                  {loc \in Locations(source) : loc[2] \in Range(col_ordered_384)}

(* Two plates entered in unsorted order, or two wells of a plate entered   *)
(* out of the canonical order, and both rows printed.                      *)
C7_Witness ==
    /\ Generated
    /\ success
    /\ Len(emitted) = 2
    /\ LET first  == <<SourcePlateSet[1].k, SourcePlateSet[1].v[1].k>>
       IN  emitted[1] # first

(* C8: a row of an entry with n failed assays has 7 assay columns when     *)
(* n <= 7, the n assays in order and then empty columns, and n assay       *)
(* columns, the n assays in order, when n > 7.                             *)
C8_SevenAssayColumns ==
    Generated =>
        LET source == SourcePlateSet IN
        \A k \in 1..Len(emitted) :
            LET assays == EntryAt(source, emitted[k]).assays
                n      == Len(assays)
                cols   == DataLine(k)
            IN  /\ Len(cols) - 7 = IF n <= 7 THEN 7 ELSE n
                /\ SubSeq(cols, 5, 4 + n) = assays
                /\ \A j \in (5 + n)..(Len(cols) - 3) : cols[j] = <<>>

(* A manifest with a row of more than 7 assays and a row of fewer than 7 *)
C8_Witness ==
    /\ Generated
    /\ success
    /\ \E k \in 1..Len(emitted) :
          Len(EntryAt(SourcePlateSet, emitted[k]).assays) > 7
    /\ \E k \in 1..Len(emitted) :
          Len(EntryAt(SourcePlateSet, emitted[k]).assays) < 7

(* C9: when the collated PlateSet is empty, generate_manifest_384 returns  *)
(* False and leaves the manifest file as it was, existing or not; the file *)
(* changes only when the PlateSet is not empty.                            *)
C9_EmptyPlateSetNoFile ==
    [][(pc = "generate"
        /\ collate_manifest_entries(failed_assays, stage3_dict) = <<>>)
       => (manifest' = manifest /\ success' = FALSE)]_vars

(* Both inputs were parsed to non-empty dicts, nothing resolved, and the   *)
(* earlier manifest file is still there.                                   *)
C9_Witness ==
    /\ Generated
    /\ SourcePlateSet = <<>>
    /\ ~success
    /\ manifest = OldFile

----------------------------------------------------------------------------
(* Claims about keys that share a well, checked under SpecCollate *)

Written == pc = "written"

(* The first key, in the order of failed_assays, that resolves to loc *)
FirstKeyAt(loc) ==
    failed_assays[CHOOSE n \in KeysAt(loc) : \A m \in KeysAt(loc) : n <= m]

AssaysOf(item) == [i \in 1..Len(item.v) |-> item.v[i][1]]

AlleleSymbolsOf(item) == [i \in 1..Len(item.v) |-> item.v[i][2]]

(* Two keys of different barcodes and different assays resolve to loc *)
SharedWell(loc) ==
    \E i, j \in KeysAt(loc) :
        /\ i < j
        /\ failed_assays[i].k[1] # failed_assays[j].k[1]
        /\ Range(AssaysOf(failed_assays[i]))
              \cap Range(AssaysOf(failed_assays[j])) = {}

(* C11: the entry of a well holds the barcode, the assays and the          *)
(* alleleSymbols of the first key, in the order of failed_assays, that     *)
(* resolves to the well, whatever keys resolve to it later; and the row    *)
(* printed for the well holds that barcode, those assays, then only empty  *)
(* assay columns, and those alleleSymbols.                                 *)
C11_FirstKeyOwnsWell ==
    /\ Collated =>
          \A loc \in Locations(plate_set) :
              /\ KeysAt(loc) # {}
              /\ EntryAt(plate_set, loc).barcode = FirstKeyAt(loc).k[1]
              /\ EntryAt(plate_set, loc).assays = AssaysOf(FirstKeyAt(loc))
              /\ EntryAt(plate_set, loc).alleleSymbols
                    = AlleleSymbolsOf(FirstKeyAt(loc))
    /\ Written =>
          \A k \in 1..Len(emitted) :
              LET item == FirstKeyAt(emitted[k])
                  n    == Len(item.v)
                  cols == DataLine(k)
              IN  /\ cols[4] = item.k[1]
                  /\ SubSeq(cols, 5, 4 + n) = AssaysOf(item)
                  /\ \A j \in (5 + n)..(Len(cols) - 3) : cols[j] = <<>>
                  /\ cols[Len(cols)] = Join(AlleleSymbolsOf(item), s_semi)

(* The row of a well that two keys of different barcodes and assays        *)
(* resolve to was printed.                                                 *)
C11_Witness ==
    /\ Written
    /\ success
    /\ \E k \in 1..Len(emitted) : SharedWell(emitted[k])

====
